---- MODULE Spec2Model ----
(***************************************************************************)
(* A model of word_learner's WordManager (src/src/core/word_manager.py):   *)
(* the word list, the sequential cursor, the dirty flag, the navigation    *)
(* history with its browse cursor, and the JSON file behind the list.      *)
(*                                                                         *)
(* Every method of WordManager is an operator of the same name that takes  *)
(* the object (a record of its fields, with the file it owns) and the      *)
(* method's arguments, and yields the object after the call, the value     *)
(* returned and what happened to the file.  An action applies one method   *)
(* to the current state.  Python values: a dict is a function from its     *)
(* keys that also holds their order, a list a sequence, None/True/False    *)
(* the records below.                                                      *)
(***************************************************************************)
EXTENDS Integers, Sequences, FiniteSets, TLC

\* ------------------------------------------------------------------ bounds

\* The longest word list add_word is let to build.
MaxWords == 2

\* The history's capacity.  The code's literal is 100 (word_manager.py:178);
\* the model runs the same algorithm with a small capacity so that eviction
\* happens within the explored states.
MaxHistory == 3

\* The longest word list add_word is let to build in SpecOrder, where a
\* call leaves two entries or more behind the one it adds, changes or removes.
MaxListed == 3

\* The longest reference log of shown rows kept by SpecLog.
MaxShown == 5

\* The most get_next_word calls counted since a reset (SpecSeq).
MaxFetches == 4

\* --------------------------------------------------------- python values

KEY_WORD == "word"
KEY_TRANSLATION == "translation"
KEY_POS == "partOfSpeech"

None == [none |-> TRUE]
True == [bool |-> TRUE]
False == [bool |-> FALSE]

\* An exception that escapes the call.
Raised(exception) == [raised |-> exception]

\* A str key argument left out (key=None): `if key` takes it like "".
NoKey == ""

\* A dict keeps its keys in the order they were inserted, and json.dump
\* writes them in that order: a dict is a function from its keys that also
\* has, under `keys`, the sequence of them, list(d.keys()).

\* set(d)
KeySet(d) == {d.keys[i] : i \in 1..Len(d.keys)}

\* key in d
Has(d, key) == \E i \in 1..Len(d.keys) : d.keys[i] = key

\* The dict of the keys `keys`, inserted in that order, with the values f.
Ordered(keys, f) ==
    [k \in {keys[i] : i \in 1..Len(keys)} \cup {"keys"} |->
        IF k = "keys" THEN keys ELSE f[k]]

\* dict.get(key) == value, for a str value: a missing key gives None, which
\* equals no str.
GetIs(d, key, value) == Has(d, key) /\ d[key] = value

\* a.get(key) == b.get(key): two missing keys give None == None.
GetSame(a, b, key) ==
    IF Has(a, key) /\ Has(b, key) THEN a[key] = b[key]
    ELSE ~Has(a, key) /\ ~Has(b, key)

\* dict.update(other): a key d has keeps its place, the others are appended
\* in other's order.
Update(d, other) ==
    LET added == SelectSeq(other.keys, LAMBDA k : ~Has(d, k))
    IN  Ordered(d.keys \o added,
                [k \in KeySet(d) \cup KeySet(other) |->
                    IF Has(other, k) THEN other[k] ELSE d[k]])

\* bool(x) of a find_word result: None is falsy, a dict is truthy unless empty.
Truthy(x) == x # None /\ x.keys # <<>>

\* The keys of an entry, in the order add_word's dict display has them.
FieldOrder == <<KEY_WORD, KEY_TRANSLATION, KEY_POS>>

\* A dict written out as {'word': ..., 'translation': ..., 'partOfSpeech':
\* ...} or with some of these keys, in this order.
Lit(f) == Ordered(SelectSeq(FieldOrder, LAMBDA k : k \in DOMAIN f), f)

Entry(w, t, p) == Lit([word |-> w, translation |-> t, partOfSpeech |-> p])

Min(S) == CHOOSE x \in S : \A y \in S : x <= y

\* list[:n]
Prefix(seq, n) == SubSeq(seq, 1, n)

\* ------------------------------------------------------------------ state

VARIABLES
    words,          \* self.words
    current_index,  \* self.current_index
    is_dirty,       \* self.is_dirty
    history,        \* self.history
    history_index,  \* self.history_index
    disk,           \* the file at self.filepath
    op,             \* the last method called
    ret,            \* the value it returned
    io,             \* what it did to the file: "none", "written" (in full),
                    \* "open_failed" (untouched), "dump_failed" (truncated)
    tags,           \* the cases it met, told from the state it was called in
    unsaved,        \* a call changed the list since the last full write
    args,           \* SpecCrud: the arguments of the last call, by name
    held,           \* SpecBrowse: for each entry of the value last returned,
                    \* the object it is: a row of self.history, or a new dict
    log,            \* SpecLog: the rows shown since the history was last
                    \* truncated, none evicted
    fetches         \* SpecSeq: the get_next_word calls since the last reset with
                    \* no change of the list since, -1 when not counting

vars == <<words, current_index, is_dirty, history, history_index, disk,
          op, ret, io, tags, unsaved, args, held, log, fetches>>

\* The object as a record.
Self ==
    [words |-> words, current_index |-> current_index, is_dirty |-> is_dirty,
     history |-> history, history_index |-> history_index, disk |-> disk]

\* Mutant of JsonObject: members with an empty value are left out.
JsonObject_skips_empty(d) ==
    LET keys == SelectSeq(d.keys, LAMBDA k : d[k] # "")
    IN  [i \in 1..Len(keys) |-> <<keys[i], d[keys[i]]>>]

\* json.dump of a dict: an object, its members as <<name, value>> pairs in
\* the dict's order.
JsonObject(d) == [i \in 1..Len(d.keys) |-> <<d.keys[i], d[d.keys[i]]>>]

\* json.dump of the list: an array of objects.
JsonDump(list) == [i \in 1..Len(list) |-> JsonObject(list[i])]

\* json.load of an object: a dict with the names in the order they are
\* written; of a name written twice the first place and the last value stay.
JsonDict(members) ==
    LET at(k) == {i \in 1..Len(members) : members[i][1] = k}
        places == SelectSeq([i \in 1..Len(members) |-> i],
                            LAMBDA i : \A j \in at(members[i][1]) : i <= j)
    IN  Ordered([n \in 1..Len(places) |-> members[places[n]][1]],
                [k \in {members[i][1] : i \in 1..Len(members)} |->
                    members[CHOOSE i \in at(k) : \A j \in at(k) : j <= i][2]])

\* json.load of an array of objects.
JsonLoad(text) == [i \in 1..Len(text) |-> JsonDict(text[i])]

\* The file: absent, not JSON, not readable, or a JSON array of objects.
DiskMissing == [state |-> "missing", data |-> <<>>]
DiskCorrupt == [state |-> "corrupt", data |-> <<>>]
DiskUnreadable == [state |-> "unreadable", data |-> <<>>]
DiskText(text) == [state |-> "ok", data |-> text]
DiskOk(list) == DiskText(JsonDump(list))

\* What open(..., 'w') and json.dump can do: succeed, fail before the file is
\* touched, or fail after it was truncated.
WriteOutcomes == {"ok", "open_fails", "dump_fails"}

\* The outcome of a call: the object afterwards, the value returned, the file I/O.
Result(self, value) == [self |-> self, ret |-> value, io |-> "none"]

\* The objects a returned value is made of: a dict made for the caller
\* (dict.copy()), or the dict that is row `at` of self.history (0-based).
Fresh == [lives |-> "caller"]
Row(at) == [lives |-> "history", at |-> at]

\* A call that returns `value`, made of the objects `refs`.
Returning(self, value, refs) == [self |-> self, ret |-> value, io |-> "none", refs |-> refs]

\* ---------------------------------------------------------------- methods

\* Mutant of _save_words: the flag is cleared before the write is tried.
_save_words_clears_first(self, outcome) ==
    CASE outcome = "ok" ->
           [self |-> [self EXCEPT !.disk = DiskOk(self.words), !.is_dirty = FALSE],
            ret |-> None, io |-> "written"]
      [] outcome = "open_fails" ->
           [self |-> [self EXCEPT !.is_dirty = FALSE], ret |-> None, io |-> "open_failed"]
      [] OTHER ->
           [self |-> [self EXCEPT !.disk = DiskCorrupt, !.is_dirty = FALSE],
            ret |-> None, io |-> "dump_failed"]

_save_words(self, outcome) ==
    CASE outcome = "ok" ->
           [self |-> [self EXCEPT !.disk = DiskOk(self.words), !.is_dirty = FALSE],
            ret |-> None, io |-> "written"]
      [] outcome = "open_fails" ->
           [self |-> self, ret |-> None, io |-> "open_failed"]
      [] OTHER ->
           [self |-> [self EXCEPT !.disk = DiskCorrupt], ret |-> None, io |-> "dump_failed"]

\* open() or the read raises FileNotFoundError or json.JSONDecodeError, which
\* are caught, or another error (PermissionError here), which is not.
_load_words(self, outcome) ==
    CASE self.disk.state = "ok" ->
           Result([self EXCEPT !.words = JsonLoad(self.disk.data)], None)
      [] self.disk.state \in {"missing", "corrupt"} ->
           _save_words([self EXCEPT !.words = <<>>], outcome)
      [] OTHER -> Result(self, Raised("PermissionError"))

__init__(file, outcome) ==
    _load_words([words |-> <<>>, current_index |-> -1, is_dirty |-> FALSE,
                 history |-> <<>>, history_index |-> -1, disk |-> file], outcome)

\* Mutant of save_changes: writes whether or not the list was changed.
save_changes_ungated(self, outcome) == _save_words(self, outcome)

save_changes(self, outcome) ==
    IF self.is_dirty THEN _save_words(self, outcome) ELSE Result(self, None)

\* Mutant of find_word: without a key, a match by word anywhere in the list is
\* taken before a match by translation.
find_word_by_word_first(self, value_to_find, key) ==
    LET by(k) == {i \in 1..Len(self.words) : GetIs(self.words[i], k, value_to_find)}
        hits == IF key # NoKey THEN by(key)
                ELSE IF by(KEY_WORD) # {} THEN by(KEY_WORD) ELSE by(KEY_TRANSLATION)
    IN  IF hits = {} THEN None ELSE self.words[Min(hits)]

\* A key that is None or '' is no key (`if key:`).
find_word(self, value_to_find, key) ==
    LET hits == IF key # NoKey
                THEN {i \in 1..Len(self.words) : GetIs(self.words[i], key, value_to_find)}
                ELSE {i \in 1..Len(self.words) :
                        \/ GetIs(self.words[i], KEY_WORD, value_to_find)
                        \/ GetIs(self.words[i], KEY_TRANSLATION, value_to_find)}
    IN  IF hits = {} THEN None ELSE self.words[Min(hits)]

\* Mutants of _add_to_history: the rows after the cursor are kept; the
\* duplicate check is dropped; the cursor is set before the eviction and not
\* clamped; the eviction starts one row late; the newest row is evicted
\* (pop() for pop(0)).
_add_to_history_keeps_rows(self, word) ==
    LET cut == self.history
        fresh == cut = <<>> \/ ~GetSame(cut[Len(cut)], word, KEY_WORD)
        grown == IF fresh THEN Append(cut, word) ELSE cut
        kept == IF fresh /\ Len(grown) > MaxHistory THEN Tail(grown) ELSE grown
    IN  [self EXCEPT !.history = kept, !.history_index = Len(kept) - 1]

_add_to_history_no_duplicate_check(self, word) ==
    LET cut == IF self.history_index < Len(self.history) - 1
               THEN Prefix(self.history, self.history_index + 1)
               ELSE self.history
        grown == Append(cut, word)
        kept == IF Len(grown) > MaxHistory THEN Tail(grown) ELSE grown
    IN  [self EXCEPT !.history = kept, !.history_index = Len(kept) - 1]

_add_to_history_cursor_not_clamped(self, word) ==
    LET cut == IF self.history_index < Len(self.history) - 1
               THEN Prefix(self.history, self.history_index + 1)
               ELSE self.history
        fresh == cut = <<>> \/ ~GetSame(cut[Len(cut)], word, KEY_WORD)
        grown == IF fresh THEN Append(cut, word) ELSE cut
        kept == IF fresh /\ Len(grown) > MaxHistory THEN Tail(grown) ELSE grown
    IN  [self EXCEPT !.history = kept, !.history_index = Len(grown) - 1]

_add_to_history_evicts_late(self, word) ==
    LET cut == IF self.history_index < Len(self.history) - 1
               THEN Prefix(self.history, self.history_index + 1)
               ELSE self.history
        fresh == cut = <<>> \/ ~GetSame(cut[Len(cut)], word, KEY_WORD)
        grown == IF fresh THEN Append(cut, word) ELSE cut
        kept == IF fresh /\ Len(grown) > MaxHistory + 1 THEN Tail(grown) ELSE grown
    IN  [self EXCEPT !.history = kept, !.history_index = Len(kept) - 1]

_add_to_history_evicts_newest(self, word) ==
    LET cut == IF self.history_index < Len(self.history) - 1
               THEN Prefix(self.history, self.history_index + 1)
               ELSE self.history
        fresh == cut = <<>> \/ ~GetSame(cut[Len(cut)], word, KEY_WORD)
        grown == IF fresh THEN Append(cut, word) ELSE cut
        kept == IF fresh /\ Len(grown) > MaxHistory
                THEN Prefix(grown, Len(grown) - 1) ELSE grown
    IN  [self EXCEPT !.history = kept, !.history_index = Len(kept) - 1]

\* More mutants of _add_to_history: the duplicate check compares whole
\* entries; a row is always appended after a truncation; the duplicate check
\* is made on the last row before the truncation.
_add_to_history_compares_entries(self, word) ==
    LET cut == IF self.history_index < Len(self.history) - 1
               THEN Prefix(self.history, self.history_index + 1)
               ELSE self.history
        fresh == cut = <<>> \/ cut[Len(cut)] # word
        grown == IF fresh THEN Append(cut, word) ELSE cut
        kept == IF fresh /\ Len(grown) > MaxHistory THEN Tail(grown) ELSE grown
    IN  [self EXCEPT !.history = kept, !.history_index = Len(kept) - 1]

_add_to_history_appends_after_cut(self, word) ==
    LET cuts == self.history_index < Len(self.history) - 1
        cut == IF cuts THEN Prefix(self.history, self.history_index + 1) ELSE self.history
        fresh == cut = <<>> \/ cuts \/ ~GetSame(cut[Len(cut)], word, KEY_WORD)
        grown == IF fresh THEN Append(cut, word) ELSE cut
        kept == IF fresh /\ Len(grown) > MaxHistory THEN Tail(grown) ELSE grown
    IN  [self EXCEPT !.history = kept, !.history_index = Len(kept) - 1]

_add_to_history_checks_first(self, word) ==
    LET fresh == self.history = <<>>
                 \/ ~GetSame(self.history[Len(self.history)], word, KEY_WORD)
        cut == IF self.history_index < Len(self.history) - 1
               THEN Prefix(self.history, self.history_index + 1)
               ELSE self.history
        grown == IF fresh THEN Append(cut, word) ELSE cut
        kept == IF fresh /\ Len(grown) > MaxHistory THEN Tail(grown) ELSE grown
    IN  [self EXCEPT !.history = kept, !.history_index = Len(kept) - 1]

_add_to_history(self, word) ==
    LET cut == IF self.history_index < Len(self.history) - 1
               THEN Prefix(self.history, self.history_index + 1)
               ELSE self.history
        fresh == cut = <<>> \/ ~GetSame(cut[Len(cut)], word, KEY_WORD)
        grown == IF fresh THEN Append(cut, word) ELSE cut
        kept == IF fresh /\ Len(grown) > MaxHistory THEN Tail(grown) ELSE grown
    IN  [self EXCEPT !.history = kept, !.history_index = Len(kept) - 1]

\* Mutants of get_random_word: the sequential cursor follows the draw; a
\* word that is the history's last row is not drawn again.
get_random_word_moves_cursor(self, choice) ==
    IF self.words = <<>> THEN Result(self, None)
    ELSE LET word == self.words[choice]
         IN  Result(_add_to_history([self EXCEPT !.current_index = choice - 1], word), word)

get_random_word_no_repeat(self, choice) ==
    IF self.words = <<>> THEN Result(self, None)
    ELSE LET last == self.history[Len(self.history)]
             again == self.history # <<>> /\ GetSame(last, self.words[choice], KEY_WORD)
             word == self.words[IF again THEN (choice % Len(self.words)) + 1 ELSE choice]
         IN  Result(_add_to_history(self, word), word)

\* `choice` is the index random.choice draws.
get_random_word(self, choice) ==
    IF self.words = <<>> THEN Result(self, None)
    ELSE LET word == self.words[choice]
         IN  Result(_add_to_history(self, word), word)

\* Mutants of get_next_word: wraps only past the end (> for >=); the cursor
\* moves before the list is found empty.
get_next_word_counts_empty(self) ==
    LET next == IF self.current_index + 1 >= Len(self.words)
                THEN 0 ELSE self.current_index + 1
        moved == [self EXCEPT !.current_index = next]
    IN  IF self.words = <<>> THEN Result(moved, None)
        ELSE Result(_add_to_history(moved, self.words[next + 1]), self.words[next + 1])

get_next_word_wraps_late(self) ==
    IF self.words = <<>> THEN Result(self, None)
    ELSE LET next == IF self.current_index + 1 > Len(self.words)
                     THEN 0 ELSE self.current_index + 1
             moved == [self EXCEPT !.current_index = next]
         IN  IF next + 1 \in DOMAIN self.words
             THEN Result(_add_to_history(moved, self.words[next + 1]), self.words[next + 1])
             ELSE Result(moved, Raised("IndexError"))

get_next_word(self) ==
    IF self.words = <<>> THEN Result(self, None)
    ELSE LET next == IF self.current_index + 1 >= Len(self.words)
                     THEN 0 ELSE self.current_index + 1
             moved == [self EXCEPT !.current_index = next]
         IN  IF next + 1 \in DOMAIN self.words
             THEN Result(_add_to_history(moved, self.words[next + 1]), self.words[next + 1])
             ELSE Result(moved, Raised("IndexError"))

\* Mutants of reset_sequential_index: resets to the first index, not before
\* it; resets the browse cursor too.
reset_sequential_index_and_browse(self) ==
    Result([self EXCEPT !.current_index = -1, !.history_index = -1], None)

reset_sequential_index_to_first(self) == Result([self EXCEPT !.current_index = 0], None)

reset_sequential_index(self) == Result([self EXCEPT !.current_index = -1], None)

\* Mutant of get_previous_word: steps back from the first row (< for <=).
get_previous_word_past_first(self) ==
    IF self.history = <<>> \/ self.history_index < 0 THEN Result(self, None)
    ELSE Result([self EXCEPT !.history_index = @ - 1],
                self.history[IF self.history_index = 0 THEN Len(self.history)
                             ELSE self.history_index])

\* Mutant of get_previous_word: the sequential cursor steps back too.
get_previous_word_rewinds(self) ==
    IF self.history = <<>> \/ self.history_index <= 0 THEN Result(self, None)
    ELSE Returning([self EXCEPT !.history_index = @ - 1,
                                !.current_index = IF @ >= 0 THEN @ - 1 ELSE @],
                   self.history[self.history_index], <<Fresh>>)

get_previous_word(self) ==
    IF self.history = <<>> \/ self.history_index <= 0 THEN Result(self, None)
    ELSE Returning([self EXCEPT !.history_index = @ - 1],
                   self.history[self.history_index], <<Fresh>>)

\* Mutant of has_previous_word: >= for >.
has_previous_word_at_first(self) == Len(self.history) > 0 /\ self.history_index >= 0

has_previous_word(self) == Len(self.history) > 0 /\ self.history_index > 0

\* Mutant of get_next_history_word: returns the row it moved from.
get_next_history_word_returns_current(self) ==
    IF self.history = <<>> \/ self.history_index >= Len(self.history) - 1
    THEN Result(self, None)
    ELSE Returning([self EXCEPT !.history_index = @ + 1],
                   self.history[self.history_index + 1], <<Fresh>>)

get_next_history_word(self) ==
    IF self.history = <<>> \/ self.history_index >= Len(self.history) - 1
    THEN Result(self, None)
    ELSE Returning([self EXCEPT !.history_index = @ + 1],
                   self.history[self.history_index + 2], <<Fresh>>)

\* Mutant of has_next_history_word: <= for <.
has_next_history_word_at_tail(self) ==
    Len(self.history) > 0 /\ self.history_index <= Len(self.history) - 1

has_next_history_word(self) ==
    Len(self.history) > 0 /\ self.history_index < Len(self.history) - 1

is_at_history_end(self) ==
    Len(self.history) > 0 /\ self.history_index = Len(self.history) - 1

get_all_words(self) == Result(self, [list |-> self.words])

\* list.copy(): a new list of the same dicts.
get_history(self) ==
    Returning(self, [list |-> self.history],
              [i \in 1..Len(self.history) |-> Row(i - 1)])

get_history_info(self) ==
    IF self.history = <<>>
    THEN Result(self, [total_count |-> 0, current_index |-> -1, unique_words |-> 0])
    ELSE LET unique_words ==
                 {IF Has(self.history[i], KEY_WORD) THEN self.history[i][KEY_WORD] ELSE "" :
                      i \in 1..Len(self.history)}
         IN  Result(self, [total_count |-> Len(self.history),
                           current_index |-> self.history_index,
                           unique_words |-> Cardinality(unique_words)])

\* Mutants of add_word: the flag is set before the duplicate check; the entry
\* is inserted at the front.
add_word_dirty_first(self, word, translation, part_of_speech) ==
    IF Truthy(find_word(self, word, KEY_WORD))
    THEN Result([self EXCEPT !.is_dirty = TRUE], False)
    ELSE Result([self EXCEPT !.words = Append(@, Entry(word, translation, part_of_speech)),
                             !.is_dirty = TRUE], True)

add_word_prepends(self, word, translation, part_of_speech) ==
    IF Truthy(find_word(self, word, KEY_WORD)) THEN Result(self, False)
    ELSE Result([self EXCEPT !.words = <<Entry(word, translation, part_of_speech)>> \o @,
                             !.is_dirty = TRUE], True)

add_word(self, word, translation, part_of_speech) ==
    IF Truthy(find_word(self, word, KEY_WORD)) THEN Result(self, False)
    ELSE Result([self EXCEPT !.words = Append(@, Entry(word, translation, part_of_speech)),
                             !.is_dirty = TRUE], True)

\* Mutants of edit_word: the flag is not set; the entry is replaced by the
\* updates and not merged with them.
edit_word_leaves_clean(self, original_word, updates) ==
    IF ~updates.isdict THEN Result(self, False)
    ELSE
    LET found == {i \in 1..Len(self.words) : GetIs(self.words[i], KEY_WORD, original_word)}
        new_word == IF Has(updates.items, KEY_WORD) THEN updates.items[KEY_WORD] ELSE ""
    IN  IF ~Truthy(find_word(self, original_word, KEY_WORD)) THEN Result(self, False)
        ELSE IF /\ Has(updates.items, KEY_WORD)
                /\ new_word # ""
                /\ new_word # original_word
                /\ Truthy(find_word(self, new_word, KEY_WORD))
        THEN Result(self, False)
        ELSE Result([self EXCEPT !.words[Min(found)] = Update(@, updates.items)], True)

edit_word_replaces(self, original_word, updates) ==
    IF ~updates.isdict THEN Result(self, False)
    ELSE
    LET found == {i \in 1..Len(self.words) : GetIs(self.words[i], KEY_WORD, original_word)}
        new_word == IF Has(updates.items, KEY_WORD) THEN updates.items[KEY_WORD] ELSE ""
    IN  IF ~Truthy(find_word(self, original_word, KEY_WORD)) THEN Result(self, False)
        ELSE IF /\ Has(updates.items, KEY_WORD)
                /\ new_word # ""
                /\ new_word # original_word
                /\ Truthy(find_word(self, new_word, KEY_WORD))
        THEN Result(self, False)
        ELSE Result([self EXCEPT !.words[Min(found)] = updates.items,
                                 !.is_dirty = TRUE], True)

\* `updates` is [isdict |-> whether it is a dict, items |-> the dict].
edit_word(self, original_word, updates) ==
    IF ~updates.isdict THEN Result(self, False)
    ELSE
    LET found == {i \in 1..Len(self.words) : GetIs(self.words[i], KEY_WORD, original_word)}
        new_word == IF Has(updates.items, KEY_WORD) THEN updates.items[KEY_WORD] ELSE ""
    IN  IF ~Truthy(find_word(self, original_word, KEY_WORD)) THEN Result(self, False)
        ELSE IF /\ Has(updates.items, KEY_WORD)
                /\ new_word # ""
                /\ new_word # original_word
                /\ Truthy(find_word(self, new_word, KEY_WORD))
        THEN Result(self, False)
        ELSE Result([self EXCEPT !.words[Min(found)] = Update(@, updates.items),
                                 !.is_dirty = TRUE], True)

\* Mutants of delete_word: the flag is set whether or not an entry went; the
\* history rows of the word are removed too; the flag is not set.
delete_word_leaves_clean(self, word_to_delete) ==
    LET kept == SelectSeq(self.words, LAMBDA word : ~GetIs(word, KEY_WORD, word_to_delete))
    IN  IF Len(kept) < Len(self.words)
        THEN Result([self EXCEPT !.words = kept], True)
        ELSE Result(self, False)

delete_word_always_dirty(self, word_to_delete) ==
    LET kept == SelectSeq(self.words, LAMBDA word : ~GetIs(word, KEY_WORD, word_to_delete))
    IN  IF Len(kept) < Len(self.words)
        THEN Result([self EXCEPT !.words = kept, !.is_dirty = TRUE], True)
        ELSE Result([self EXCEPT !.is_dirty = TRUE], False)

delete_word_purges_history(self, word_to_delete) ==
    LET kept == SelectSeq(self.words, LAMBDA word : ~GetIs(word, KEY_WORD, word_to_delete))
        rows == SelectSeq(self.history, LAMBDA word : ~GetIs(word, KEY_WORD, word_to_delete))
    IN  IF Len(kept) < Len(self.words)
        THEN Result([self EXCEPT !.words = kept, !.is_dirty = TRUE, !.history = rows], True)
        ELSE Result(self, False)

\* Mutant of delete_word: the entries kept come back with the first of them
\* moved behind the others.
delete_word_moves_first_last(self, word_to_delete) ==
    LET kept == SelectSeq(self.words, LAMBDA word : ~GetIs(word, KEY_WORD, word_to_delete))
        moved == IF kept = <<>> THEN kept ELSE Tail(kept) \o <<Head(kept)>>
    IN  IF Len(kept) < Len(self.words)
        THEN Result([self EXCEPT !.words = moved, !.is_dirty = TRUE], True)
        ELSE Result(self, False)

delete_word(self, word_to_delete) ==
    LET kept == SelectSeq(self.words, LAMBDA word : ~GetIs(word, KEY_WORD, word_to_delete))
    IN  IF Len(kept) < Len(self.words)
        THEN Result([self EXCEPT !.words = kept, !.is_dirty = TRUE], True)
        ELSE Result(self, False)

\* ---------------------------------------------------------------- actions

\* Which case of _add_to_history a retrieval met, from the state it was called
\* in and the entry it returned: nothing when no entry was returned; else
\* "first" (empty history); "duplicate" or "append" with the cursor at the tail,
\* and "evict" too when the history was full; "truncate" with the cursor
\* before the tail, and "duplicate" too when the cursor's row has the word.
HistoryCase(self, r) ==
    IF r.ret = None \/ r.ret = Raised("IndexError") THEN {}
    ELSE IF self.history = <<>> THEN {"first"}
    ELSE LET at_tail == self.history_index = Len(self.history) - 1
             same == GetSame(self.history[self.history_index + 1], r.ret, KEY_WORD)
         IN  (IF at_tail THEN {} ELSE {"truncate"})
             \cup (IF same THEN {"duplicate"} ELSE {"append"})
             \cup (IF at_tail /\ ~same /\ Len(self.history) = MaxHistory
                   THEN {"evict"} ELSE {})

\* The sequential cursor had been left at or beyond the list's length.
CursorCase(self) ==
    IF self.words # <<>> /\ self.current_index >= Len(self.words) THEN {"stale"} ELSE {}

\* reset_sequential_index found the cursor moved from -1; get_next_word is
\* the call right after a reset_sequential_index, and what that one found.
ResetCase(self) == IF self.current_index # -1 THEN {"moved"} ELSE {}

AfterReset == IF op = "reset_sequential_index" THEN {"reset"} \cup tags ELSE {}

\* The previous call was save_changes too, and what that one did to the file.
SaveCase ==
    IF op # "save_changes" THEN {}
    ELSE CASE io = "none" -> {"after_no_write"}
           [] io = "written" -> {"after_written"}
           [] io = "open_failed" -> {"after_open_failed"}
           [] OTHER -> {"after_dump_failed"}

Mutations == {"add_word", "edit_word", "delete_word"}

\* The state after a call with outcome r.
Apply(r, name) ==
    /\ unsaved' = IF r.io = "written" THEN FALSE
                  ELSE IF name \in Mutations /\ r.ret = True THEN TRUE
                  ELSE unsaved
    /\ words' = r.self.words
    /\ current_index' = r.self.current_index
    /\ is_dirty' = r.self.is_dirty
    /\ history' = r.self.history
    /\ history_index' = r.self.history_index
    /\ disk' = r.self.disk
    /\ op' = name
    /\ ret' = r.ret
    /\ io' = r.io

Other(r, name) == Apply(r, name) /\ tags' = {}

GetRandomWord ==
    \E choice \in (IF words = <<>> THEN {0} ELSE 1..Len(words)) :
        LET r == get_random_word(Self, choice)
        IN  Apply(r, "get_random_word") /\ tags' = HistoryCase(Self, r)

GetNextWord ==
    LET r == get_next_word(Self)
    IN  /\ Apply(r, "get_next_word")
        /\ tags' = HistoryCase(Self, r) \cup CursorCase(Self) \cup AfterReset

ResetSequentialIndex ==
    /\ Apply(reset_sequential_index(Self), "reset_sequential_index")
    /\ tags' = ResetCase(Self)

GetPreviousWord == Other(get_previous_word(Self), "get_previous_word")

GetNextHistoryWord == Other(get_next_history_word(Self), "get_next_history_word")

AddWord(Ws, Ts) ==
    \E w \in Ws, t \in Ts :
        LET r == add_word(Self, w, t, "")
        IN  Len(r.self.words) <= MaxWords /\ Other(r, "add_word")

EditWord(Ws, Us) ==
    \E w \in Ws, u \in Us : Other(edit_word(Self, w, u), "edit_word")

DeleteWord(Ws) == \E w \in Ws : Other(delete_word(Self, w), "delete_word")

SaveChanges ==
    \E outcome \in WriteOutcomes :
        Apply(save_changes(Self, outcome), "save_changes") /\ tags' = SaveCase

\* The state after construction on `file`, `given` the record of the call.
ConstructedAs(file, outcome, given) ==
    LET r == __init__(file, outcome)
    IN  /\ words = r.self.words
        /\ current_index = r.self.current_index
        /\ is_dirty = r.self.is_dirty
        /\ history = r.self.history
        /\ history_index = r.self.history_index
        /\ disk = r.self.disk
        /\ op = "__init__"
        /\ ret = r.ret
        /\ io = r.io
        /\ tags = {}
        /\ unsaved = FALSE
        /\ args = given
        /\ held = <<>>

Constructed(file, outcome) == ConstructedAs(file, outcome, None)

\* An `updates` argument that is a dict, written out as Lit has it.
Dict(items) == [isdict |-> TRUE, items |-> Lit(items)]
NotADict == [isdict |-> FALSE, items |-> <<>>]

\* ------------------------------------------------------------------- Spec
\* Retrieval, history navigation and the list's mutations, on words a, b, c.

Words == {"a", "b", "c"}
Translations == {"x"}

Files ==
    {DiskMissing, DiskCorrupt,
     DiskOk(<<Entry("a", "x", "")>>),
     DiskOk(<<Entry("a", "x", ""), Entry("b", "x", "")>>)}

Renames == {Dict(<<>>)} \cup {Dict([word |-> w]) : w \in Words}

Quiet == UNCHANGED <<held, log, fetches, args>>

Init ==
    /\ \E file \in Files, outcome \in WriteOutcomes : Constructed(file, outcome)
    /\ log = <<>>
    /\ fetches = -1

Next ==
    \/ GetRandomWord /\ Quiet
    \/ GetNextWord /\ Quiet
    \/ ResetSequentialIndex /\ Quiet
    \/ GetPreviousWord /\ Quiet
    \/ GetNextHistoryWord /\ Quiet
    \/ AddWord(Words, Translations) /\ Quiet
    \/ EditWord(Words, Renames) /\ Quiet
    \/ DeleteWord(Words) /\ Quiet

Spec == Init /\ [][Next]_vars

\* ---------------------------------------------------------------- SpecLog
\* Retrieval and history navigation on a fixed list, with the reference log:
\* every row shown is appended to it and none is evicted; a retrieval made
\* with the cursor before the tail starts it again from the truncated history.

LogFiles ==
    {DiskOk(<<Entry("a", "x", ""), Entry("b", "x", "")>>),
     DiskOk(<<Entry("a", "x", ""), Entry("b", "x", ""), Entry("c", "x", "")>>)}

LogShown ==
    /\ log' = IF ret' = None THEN log
              ELSE IF history_index < Len(history) - 1 THEN history'
              ELSE IF log # <<>> /\ GetSame(log[Len(log)], ret', KEY_WORD) THEN log
              ELSE Append(log, ret')
    /\ Len(log') <= MaxShown
    /\ UNCHANGED <<held, fetches, args>>

InitLog ==
    /\ \E file \in LogFiles : Constructed(file, "ok")
    /\ log = <<>>
    /\ fetches = -1

NextLog ==
    \/ GetRandomWord /\ LogShown
    \/ GetNextWord /\ LogShown
    \/ GetPreviousWord /\ Quiet
    \/ GetNextHistoryWord /\ Quiet

SpecLog == InitLog /\ [][NextLog]_vars

\* ---------------------------------------------------------------- SpecSeq
\* The sequential fetch with the count of fetches since the last reset; a
\* call that changes the list ends the count.

Counted ==
    /\ fetches' = IF ret' = None \/ fetches = -1 THEN fetches
                  ELSE IF fetches < MaxFetches THEN fetches + 1 ELSE -1
    /\ UNCHANGED <<held, log, args>>

Uncounted ==
    /\ fetches' = IF ret' = True THEN -1 ELSE fetches
    /\ UNCHANGED <<held, log, args>>

NextSeq ==
    \/ ResetSequentialIndex /\ fetches' = 0 /\ UNCHANGED <<held, log, args>>
    \/ GetNextWord /\ Counted
    \/ GetRandomWord /\ Quiet
    \/ AddWord(Words, Translations) /\ Uncounted
    \/ EditWord(Words, Renames) /\ Uncounted
    \/ DeleteWord(Words) /\ Uncounted

SpecSeq == Init /\ [][NextSeq]_vars

\* -------------------------------------------------------------- SpecStore
\* The list's mutations and the save, on words that include the empty string.

StoreWords == {"", "a", "b"}

StoreUpdates ==
    {Dict(<<>>), NotADict, Dict([translation |-> "y"])}
        \cup {Dict([word |-> w]) : w \in StoreWords}

NextStore ==
    \/ AddWord(StoreWords, Translations) /\ Quiet
    \/ EditWord(StoreWords, StoreUpdates) /\ Quiet
    \/ DeleteWord(StoreWords) /\ Quiet
    \/ SaveChanges /\ Quiet

SpecStore == Init /\ [][NextStore]_vars

\* --------------------------------------------------------------- SpecCrud
\* The list's mutations with their arguments on record, on words that include
\* the empty string, two translations and a part of speech.

PartsOfSpeech == {"n"}

CrudUpdates ==
    StoreUpdates \cup {Dict([word |-> w, translation |-> "y"]) : w \in StoreWords}

NoArgs == UNCHANGED <<held, log, fetches>> /\ args' = None

AddWordCallUpTo(Ws, Ts, Ps, most) ==
    \E w \in Ws, t \in Ts, p \in Ps :
        LET r == add_word(Self, w, t, p)
        IN  /\ Len(r.self.words) <= most
            /\ Other(r, "add_word")
            /\ args' = [word |-> w, translation |-> t, part_of_speech |-> p]
            /\ UNCHANGED <<held, log, fetches>>

AddWordCall(Ws, Ts, Ps) == AddWordCallUpTo(Ws, Ts, Ps, MaxWords)

EditWordCall(Ws, Us) ==
    \E w \in Ws, u \in Us :
        /\ Other(edit_word(Self, w, u), "edit_word")
        /\ args' = [original_word |-> w, updates |-> u]
        /\ UNCHANGED <<held, log, fetches>>

DeleteWordCall(Ws) ==
    \E w \in Ws :
        /\ Other(delete_word(Self, w), "delete_word")
        /\ args' = [word_to_delete |-> w]
        /\ UNCHANGED <<held, log, fetches>>

NextCrud ==
    \/ AddWordCall(StoreWords, Translations, PartsOfSpeech)
    \/ EditWordCall(StoreWords, CrudUpdates)
    \/ DeleteWordCall(StoreWords)

SpecCrud == Init /\ [][NextCrud]_vars

\* ---------------------------------------------------------------- SpecAll
\* Every method, on words a and b, the mutations' arguments on record.

AllWords == {"a", "b"}

AllUpdates == {Dict(<<>>), NotADict} \cup {Dict([word |-> w]) : w \in AllWords}

FindWord(Vs, Ks) ==
    \E v \in Vs, k \in Ks : Other(Result(Self, find_word(Self, v, k)), "find_word")

NextAll ==
    \/ GetRandomWord /\ NoArgs
    \/ GetNextWord /\ NoArgs
    \/ ResetSequentialIndex /\ NoArgs
    \/ GetPreviousWord /\ NoArgs
    \/ GetNextHistoryWord /\ NoArgs
    \/ FindWord(AllWords \cup Translations, {NoKey, KEY_WORD, KEY_TRANSLATION}) /\ NoArgs
    \/ AddWordCall(AllWords, Translations, {""})
    \/ EditWordCall(AllWords, AllUpdates)
    \/ DeleteWordCall(AllWords)
    \/ SaveChanges /\ NoArgs

SpecAll == Init /\ [][NextAll]_vars

\* --------------------------------------------------------------- SpecFind
\* The search, its arguments on record, on lists where a value can be the
\* word of one entry and the translation of another.

FindValues == {"a", "b"}

FindKeys == {NoKey, KEY_WORD, KEY_TRANSLATION, KEY_POS}

FindWordCall(Vs, Ks) ==
    \E v \in Vs, k \in Ks :
        /\ Other(Result(Self, find_word(Self, v, k)), "find_word")
        /\ args' = [value_to_find |-> v, key |-> k]
        /\ UNCHANGED <<held, log, fetches>>

NextFind ==
    \/ AddWordCall(FindValues, FindValues, {""})
    \/ DeleteWordCall(FindValues)
    \/ FindWordCall(FindValues \cup {"", "x"}, FindKeys)

SpecFind == Init /\ [][NextFind]_vars

\* ------------------------------------------------------------- SpecBrowse
\* Retrieval, history navigation and the history's queries, with a caller
\* that changes the entries it was handed.

MutatedFields == {KEY_WORD}
MutatedValues == {"z"}

\* A call with what the caller holds of it afterwards.
Call(r, name) ==
    /\ Other(r, name)
    /\ held' = IF "refs" \in DOMAIN r THEN r.refs ELSE <<>>
    /\ args' = None
    /\ UNCHANGED <<log, fetches>>

Bool(b) == IF b THEN True ELSE False

HeldNot == held' = <<>> /\ args' = None /\ UNCHANGED <<log, fetches>>

HasPreviousWord == Call(Result(Self, Bool(has_previous_word(Self))), "has_previous_word")

HasNextHistoryWord ==
    Call(Result(Self, Bool(has_next_history_word(Self))), "has_next_history_word")

IsAtHistoryEnd == Call(Result(Self, Bool(is_at_history_end(Self))), "is_at_history_end")

GetHistory == Call(get_history(Self), "get_history")

GetHistoryInfo == Call(get_history_info(Self), "get_history_info")

\* The caller sets field f of the k-th entry it holds to v: entry[f] = v,
\* which changes the dict wherever else it is referred to.
CallerMutatesEntry(Fs, Vs) ==
    \E k \in 1..Len(held), f \in Fs, v \in Vs :
        /\ ret' = IF "list" \in DOMAIN ret
                  THEN [list |-> [ret.list EXCEPT ![k] = Update(@, Ordered(<<f>>, f :> v))]]
                  ELSE Update(ret, Ordered(<<f>>, f :> v))
        /\ history' = IF held[k].lives = "history"
                      THEN [history EXCEPT ![held[k].at + 1] = Update(@, Ordered(<<f>>, f :> v))]
                      ELSE history
        /\ op' = "caller"
        /\ UNCHANGED <<words, current_index, is_dirty, history_index, disk,
                       io, tags, unsaved, args, held, log, fetches>>

\* The caller removes the last entry of the list it holds: list.pop().
CallerMutatesList ==
    /\ ret # None /\ "list" \in DOMAIN ret /\ ret.list # <<>> /\ held # <<>>
    /\ ret' = [list |-> Prefix(ret.list, Len(ret.list) - 1)]
    /\ held' = Prefix(held, Len(held) - 1)
    /\ op' = "caller"
    /\ UNCHANGED <<words, current_index, is_dirty, history, history_index, disk,
                   io, tags, unsaved, args, log, fetches>>

NextBrowse ==
    \/ GetRandomWord /\ HeldNot
    \/ GetNextWord /\ HeldNot
    \/ Call(get_previous_word(Self), "get_previous_word")
    \/ Call(get_next_history_word(Self), "get_next_history_word")
    \/ HasPreviousWord
    \/ HasNextHistoryWord
    \/ IsAtHistoryEnd
    \/ GetHistory
    \/ GetHistoryInfo
    \/ CallerMutatesEntry(MutatedFields, MutatedValues)
    \/ CallerMutatesList

SpecBrowse == Init /\ [][NextBrowse]_vars

\* --------------------------------------------------------------- SpecLoad
\* Construction on every kind of file, the list's mutations, the save, and
\* construction anew on the file as it then is.

LoadWords == {"a", "b"}

LoadUpdates == {Dict(<<>>), Dict([translation |-> "y"]), Dict([word |-> "b"])}

LoadFiles ==
    {DiskMissing, DiskCorrupt, DiskUnreadable,
     DiskOk(<<>>),
     DiskOk(<<Entry("a", "x", "")>>),
     DiskOk(<<Entry("b", "x", "n"), Entry("a", "y", "")>>),
     DiskText(<< <<(<<KEY_WORD, "a">>)>> >>),
     DiskText(<< <<(<<KEY_TRANSLATION, "x">>), (<<KEY_WORD, "b">>)>>,
                 <<(<<KEY_WORD, "a">>), (<<KEY_POS, "n">>)>> >>)}

\* The constructor raised: there is no object to call.
NotBuilt == op = "__init__" /\ ret # None

InitLoad ==
    /\ \E file \in LoadFiles, outcome \in WriteOutcomes :
           ConstructedAs(file, outcome, [filepath |-> file])
    /\ log = <<>>
    /\ fetches = -1

\* WordManager(filepath) on the file as it is now.
Reload ==
    \E outcome \in WriteOutcomes :
        LET r == __init__(disk, outcome)
        IN  /\ words' = r.self.words
            /\ current_index' = r.self.current_index
            /\ is_dirty' = r.self.is_dirty
            /\ history' = r.self.history
            /\ history_index' = r.self.history_index
            /\ disk' = r.self.disk
            /\ op' = "__init__"
            /\ ret' = r.ret
            /\ io' = r.io
            /\ tags' = {}
            /\ unsaved' = FALSE
            /\ args' = [filepath |-> disk]
            /\ UNCHANGED <<held, log, fetches>>

NextLoad ==
    \/ ~NotBuilt /\ AddWordCall(LoadWords, Translations, {""})
    \/ ~NotBuilt /\ EditWordCall(LoadWords, LoadUpdates)
    \/ ~NotBuilt /\ DeleteWordCall(LoadWords)
    \/ ~NotBuilt /\ SaveChanges /\ NoArgs
    \/ Reload

SpecLoad == InitLoad /\ [][NextLoad]_vars

\* -------------------------------------------------------------- SpecOrder
\* The list's mutations on lists of up to three entries, the save, and
\* construction anew on the file as it then is.

OrderWords == {"a", "b", "c"}

OrderUpdates == {Dict([translation |-> "y"])}

OrderFiles ==
    {DiskMissing,
     DiskText(<< <<(<<KEY_WORD, "a">>)>> >>),
     DiskOk(<<Entry("a", "x", ""), Entry("b", "x", ""), Entry("c", "x", "")>>)}

InitOrder ==
    /\ \E file \in OrderFiles, outcome \in WriteOutcomes :
           ConstructedAs(file, outcome, [filepath |-> file])
    /\ log = <<>>
    /\ fetches = -1

NextOrder ==
    \/ AddWordCallUpTo(OrderWords, Translations, {""}, MaxListed)
    \/ EditWordCall(OrderWords, OrderUpdates)
    \/ DeleteWordCall(OrderWords)
    \/ SaveChanges /\ NoArgs
    \/ Reload

SpecOrder == InitOrder /\ [][NextOrder]_vars

\* --------------------------------------------------------------- SpecEdit
\* Retrieval and history navigation between edits of an entry's translation
\* and part of speech.

FieldUpdates == {Dict([translation |-> "y"]), Dict([partOfSpeech |-> "n"])}

NextEdit ==
    \/ GetRandomWord /\ NoArgs
    \/ GetNextWord /\ NoArgs
    \/ GetPreviousWord /\ NoArgs
    \/ EditWordCall(AllWords, FieldUpdates)

SpecEdit == Init /\ [][NextEdit]_vars

\* --------------------------------------------------------------- SpecMain
\* The application (src/main.py): main() builds the one MainWindow, shows it
\* and runs Qt's event loop.  MainWindow.__init__ builds the SettingsManager
\* on config.json (line 18) and the WordManager on assets/words.json (line 19),
\* sets current_word_data to None (line 20) and then reads
\* self.settings_manager.KEY_DEEPSEEK_API_KEY (line 23).  SettingsManager
\* (src/core/settings_manager.py) defines KEY_DISPLAY_INTERVAL,
\* KEY_DISPLAY_MODE and KEY_SHOW_CHINESE and no other name, on the class or
\* on the object, so the lookup raises AttributeError: the constructor ends
\* there, before a timer, a button or a label is made and before a word is
\* fetched, main() has no handler for the exception and the process ends.
\* What is left of the run is the words file, which the WordManager's load
\* has written where it was missing or was not JSON.  No handler of the
\* window (a click, a dialog, a tick of countdown_timer) is ever connected,
\* so none is a step of the program.

\* config.json as SettingsManager.load_settings finds it (settings_manager.py
\* lines 55-65): missing or not JSON, which are caught and give the defaults;
\* a JSON object, which is merged over the defaults; JSON of another kind (an
\* array, a number, a string, null), on which the merge {**defaults, **read}
\* raises TypeError; a file that cannot be read, on which open() raises
\* PermissionError.  Neither of the last two is caught.
ConfigFiles == {"missing", "corrupt", "object", "not_object", "unreadable"}

\* SettingsManager(filepath): None when the settings were loaded, or the
\* exception that load_settings lets out.
SettingsManager(config) ==
    CASE config = "not_object" -> Raised("TypeError")
      [] config = "unreadable" -> Raised("PermissionError")
      [] OTHER -> None

\* MainWindow(): the outcome of the constructor with config.json as `config`
\* and the words file as `file`, the write of WordManager's load going as
\* `outcome`.  An exception of SettingsManager(filepath) ends it before the
\* words file is touched (line 18); an exception of WordManager(filepath)
\* ends it next (line 19); otherwise line 23 raises.
MainWindow(config, file, outcome) ==
    LET settings_manager == SettingsManager(config)
        r == __init__(file, outcome)
    IN  IF settings_manager # None
        THEN Result([words |-> <<>>, current_index |-> -1, is_dirty |-> FALSE,
                     history |-> <<>>, history_index |-> -1, disk |-> file],
                    settings_manager)
        ELSE IF r.ret # None THEN r
        ELSE [r EXCEPT !.ret = Raised("AttributeError")]

\* main(), run on config.json in any state and the words file as it is.
Main(file) ==
    \E config \in ConfigFiles, outcome \in WriteOutcomes :
        LET r == MainWindow(config, file, outcome)
        IN  /\ words' = r.self.words
            /\ current_index' = r.self.current_index
            /\ is_dirty' = r.self.is_dirty
            /\ history' = r.self.history
            /\ history_index' = r.self.history_index
            /\ disk' = r.self.disk
            /\ op' = "MainWindow"
            /\ ret' = r.ret
            /\ io' = r.io
            /\ tags' = {}
            /\ unsaved' = FALSE
            /\ args' = [config |-> config, filepath |-> file]
            /\ UNCHANGED <<held, log, fetches>>

\* The application not yet run, on each kind of words file.
InitMain ==
    /\ \E file \in LoadFiles :
           /\ disk = file
           /\ args = [config |-> "missing", filepath |-> file]
    /\ words = <<>> /\ current_index = -1 /\ is_dirty = FALSE
    /\ history = <<>> /\ history_index = -1
    /\ op = "none" /\ ret = None /\ io = "none" /\ tags = {}
    /\ unsaved = FALSE /\ held = <<>> /\ log = <<>> /\ fetches = -1

NextMain == Main(disk)

SpecMain == InitMain /\ [][NextMain]_vars

\* Every run of the application ends in an exception of the constructor:
\* no run leaves a window.
NoWindow == op = "MainWindow" => ret # None

\* ----------------------------------------------------------------- claims

\* C1: no two entries of the list have the same `word`, after any add_word
\* and edit_word calls on a list that had none.
C1_Uniqueness ==
    \A i, j \in 1..Len(words) : i # j => ~GetSame(words[i], words[j], KEY_WORD)

Retrievals == {"get_random_word", "get_next_word"}

\* op is a retrieval that returned an entry.
Retrieved == op \in Retrievals /\ ret # None /\ ret # Raised("IndexError")

\* C2: the browse cursor is valid in every reachable state: the history is
\* empty and history_index = -1, or 0 <= history_index <= len(history) - 1.
C2_BrowseCursorValid ==
    \/ history = <<>> /\ history_index = -1
    \/ history # <<>> /\ 0 <= history_index /\ history_index <= Len(history) - 1

\* The word under the cursor of a full history (rows were evicted before) has
\* just been deleted from the list.
C2_Witness ==
    /\ op = "delete_word" /\ ret = True
    /\ Len(history) = MaxHistory
    /\ \E i \in 1..Len(history) :
          /\ i = history_index + 1
          /\ find_word(Self, history[i].word, KEY_WORD) = None

\* C3: a retrieval with the cursor at i, before the tail, that returns a word
\* other than row i's leaves exactly the rows 0..i followed by the returned
\* entry, and no next history word.
C3_Truncation ==
    [][(/\ Retrieved'
        /\ history # <<>>
        /\ history_index < Len(history) - 1
        /\ ~GetSame(history[history_index + 1], ret', KEY_WORD))
       => /\ history' = Append(Prefix(history, history_index + 1), ret')
          /\ ~has_next_history_word(Self')]_vars

C3_Witness == Retrieved /\ tags = {"truncate", "append"}

\* C4: a retrieval with the cursor at the tail that returns the tail's word
\* adds no row: the history is unchanged.
C4_DuplicateSuppressed ==
    [][(/\ Retrieved'
        /\ history # <<>>
        /\ history_index = Len(history) - 1
        /\ GetSame(history[Len(history)], ret', KEY_WORD))
       => /\ history' = history
          /\ Len(history') = Len(history)]_vars

C4_Witness == Retrieved /\ tags = {"duplicate"} /\ Len(history) >= 2

\* C5: after a retrieval that returned an entry the cursor is at the tail,
\* the tail has the returned word, and is_at_history_end() is true.
C5_CursorAtTailAfterRetrieval ==
    Retrieved =>
        /\ history # <<>>
        /\ history_index = Len(history) - 1
        /\ GetSame(history[Len(history)], ret, KEY_WORD)
        /\ is_at_history_end(Self)

C5_Witness == Retrieved /\ "evict" \in tags

\* C6: the history never holds more rows than its capacity.
C6_HistoryBounded == Len(history) <= MaxHistory

C6_Witness == Retrieved /\ "evict" \in tags /\ Len(history) = MaxHistory

\* C9: after a get_next_word call on a non-empty list the sequential cursor
\* is an index of the list, the call raised no IndexError and returned the
\* entry at the cursor.
C9_SequentialCursorInRange ==
    (op = "get_next_word" /\ words # <<>>) =>
        /\ 0 <= current_index /\ current_index < Len(words)
        /\ ret # Raised("IndexError")
        /\ ret = words[current_index + 1]

C9_Witness == op = "get_next_word" /\ "stale" \in tags /\ Retrieved

\* C7: a retrieval that appends to a full history with the cursor at the tail
\* removes exactly the oldest row and puts the new entry last; so the history
\* is always the last MaxHistory rows of everything shown, in order, with the
\* cursor in range.
LastRows(seq, n) == IF Len(seq) <= n THEN seq ELSE SubSeq(seq, Len(seq) - n + 1, Len(seq))

C7_FifoEviction ==
    /\ [][(/\ Retrieved'
           /\ Len(history) = MaxHistory
           /\ history_index = Len(history) - 1
           /\ ~GetSame(history[Len(history)], ret', KEY_WORD))
          => history' = Append(Tail(history), ret')]_vars
    /\ [](/\ history = LastRows(log, MaxHistory)
          /\ history # <<>> => (0 <= history_index /\ history_index <= Len(history) - 1))

\* More rows than the history holds were shown, the last by a call that evicted.
C7_Witness ==
    /\ Retrieved /\ "evict" \in tags
    /\ Len(log) = MaxShown /\ MaxShown > MaxHistory + 1
    /\ history = LastRows(log, MaxHistory)

\* C8: on a list of n >= 1 entries the k-th get_next_word call after a reset,
\* k = 1..n, leaves the cursor at k - 1 and returns the entry there, and the
\* (n+1)-th returns the first entry again.
C8_SequentialWrap ==
    (fetches >= 1 /\ op = "get_next_word") =>
        LET n == Len(words)
        IN  /\ n >= 1
            /\ fetches <= n => (current_index = fetches - 1 /\ ret = words[fetches])
            /\ fetches = n + 1 => (current_index = 0 /\ ret = words[1])

C8_Witness ==
    /\ op = "get_next_word" /\ Len(words) >= 2
    /\ fetches = Len(words) + 1

\* C10 as stated: save_changes writes only when is_dirty; is_dirty is false
\* when no call changed the list since the last full write; of two
\* save_changes calls in a row at most one writes to the file.
Touched(what) == what \in {"written", "dump_failed"}

C10_WritesOnlyWhenDirty ==
    [][(op' = "save_changes" /\ io' # "none") => is_dirty]_vars

C10_CleanWhenUnchanged == [](~unsaved => ~is_dirty)

C10_Original ==
    /\ C10_WritesOnlyWhenDirty
    /\ C10_CleanWhenUnchanged
    /\ [][(op = "save_changes" /\ op' = "save_changes")
          => ~(Touched(io) /\ Touched(io'))]_vars

\* C10 amended: save_changes writes only when is_dirty; is_dirty is false
\* when no call changed the list since the last full write; of two
\* save_changes calls in a row both write to the file only when the first
\* one's write failed part-way (is_dirty stays set and the second retries).
C10_DirtyGate ==
    /\ C10_WritesOnlyWhenDirty
    /\ C10_CleanWhenUnchanged
    /\ [][(op = "save_changes" /\ op' = "save_changes" /\ Touched(io) /\ Touched(io'))
          => io = "dump_failed"]_vars

\* A second save_changes in a row wrote nothing, the first having written
\* a changed list in full.
C10_Witness ==
    /\ op = "save_changes" /\ tags = {"after_written"}
    /\ io = "none" /\ ~is_dirty
    /\ words # <<>> /\ disk = DiskOk(words)

\* C11: an add_word, edit_word or delete_word call that returned true leaves
\* is_dirty true; is_dirty goes from true to false only in a step that wrote
\* the file in full; no call but those three and save_changes changes it.
C11_DirtyTransitions ==
    /\ []((op \in Mutations /\ ret = True) => is_dirty)
    /\ [][(is_dirty /\ ~is_dirty') => io' = "written"]_vars
    /\ [][(op' \notin Mutations \cup {"save_changes"}) => is_dirty' = is_dirty]_vars

\* A save_changes call wrote the changed list and cleared the flag.
C11_Witness ==
    /\ op = "save_changes" /\ io = "written" /\ ~is_dirty
    /\ history # <<>> /\ words # <<>>

\* C12: a save_changes call made with is_dirty true whose write fails returns
\* normally, leaves is_dirty true and the list as it was; and every
\* save_changes call made with is_dirty true tries the write, so the next one
\* tries it again.
WriteFailed(what) == what \in {"open_failed", "dump_failed"}

C12_PersistFailure ==
    /\ [][(op' = "save_changes" /\ is_dirty /\ WriteFailed(io'))
          => (ret' = None /\ is_dirty' /\ words' = words)]_vars
    /\ [][(op' = "save_changes" /\ is_dirty) => io' # "none"]_vars

\* A save_changes call that followed a failed one wrote the file.
C12_Witness ==
    /\ op = "save_changes" /\ io = "written"
    /\ tags \in {{"after_open_failed"}, {"after_dump_failed"}}
    /\ words # <<>>

\* The store after a step is the store before it.
StoreUnchanged ==
    /\ words' = words /\ is_dirty' = is_dirty /\ current_index' = current_index
    /\ history' = history /\ history_index' = history_index /\ disk' = disk

\* The indices of the entries whose word is w.
Having(w) == {i \in 1..Len(words) : GetIs(words[i], KEY_WORD, w)}

\* The step applied the whole of the change its call asked for.
WholeMutation ==
    CASE op' = "add_word" ->
           words' = Append(words, Entry(args'.word, args'.translation, args'.part_of_speech))
      [] op' = "edit_word" ->
           /\ Len(words') = Len(words)
           /\ \E i \in Having(args'.original_word) :
                /\ words'[i] = Update(words[i], args'.updates.items)
                /\ \A j \in 1..Len(words) : j # i => words'[j] = words[j]
      [] OTHER ->
           /\ Len(words') < Len(words)
           /\ \A i \in 1..Len(words') : ~GetIs(words'[i], KEY_WORD, args'.word_to_delete)

\* C13: an add_word, edit_word or delete_word call that returns false leaves
\* the list, the flag, both cursors and the history as they were; one that
\* returns true has applied its whole change and set the flag; there is no
\* third outcome.
C13_CrudAtomic ==
    [][op' \in Mutations =>
         \/ ret' = False /\ StoreUnchanged
         \/ ret' = True /\ is_dirty' /\ WholeMutation]_vars

\* A refused call on a store with unsaved changes and a browsed history.
C13_Witness ==
    /\ op \in Mutations /\ ret = False
    /\ is_dirty /\ history # <<>> /\ history_index < Len(history) - 1

\* C14: add_word(w, t, p) returns false exactly when an entry with word w is
\* in the list, and then the list is as it was; otherwise it returns true and
\* the list is the old one with {word: w, translation: t, partOfSpeech: p}
\* added at the end.
C14_AddWord ==
    [][op' = "add_word" =>
         IF Having(args'.word) # {}
         THEN ret' = False /\ words' = words
         ELSE /\ ret' = True
              /\ words' = words \o
                   <<Entry(args'.word, args'.translation, args'.part_of_speech)>>]_vars

\* add_word put a second entry, with its part of speech, behind the first.
C14_Witness ==
    /\ op = "add_word" /\ ret = True /\ Len(words) = 2
    /\ words[2] = Entry(args.word, args.translation, "n")
    /\ words[1].word # args.word

\* The cases in which edit_word is to refuse.
Refused(original, updates) ==
    \/ ~updates.isdict
    \/ Having(original) = {}
    \/ /\ Has(updates.items, KEY_WORD)
       /\ updates.items[KEY_WORD] # original
       /\ Having(updates.items[KEY_WORD]) # {}

\* C15: edit_word(original, updates) returns false and changes nothing when
\* updates is not a dict, when no entry has word original, or when updates
\* carries a word that differs from original and is the word of an entry of
\* the list; in every other case it returns true.
C15_EditWordRefusals ==
    [][op' = "edit_word" =>
         IF Refused(args'.original_word, args'.updates)
         THEN ret' = False /\ StoreUnchanged
         ELSE ret' = True]_vars

\* C16: an edit_word call that returns true changes, on the first entry whose
\* word is original, the fields that updates carries and no other; the entry
\* stays where it was, every other entry and the length of the list stay as
\* they were; is_dirty is set, with empty updates too.
C16_EditWordMerges ==
    [][(op' = "edit_word" /\ ret' = True) =>
         LET first == Min(Having(args'.original_word))
             given == args'.updates.items
         IN  /\ Having(args'.original_word) # {}
             /\ Len(words') = Len(words)
             /\ \A j \in 1..Len(words) : j # first => words'[j] = words[j]
             /\ KeySet(words'[first]) = KeySet(words[first]) \cup KeySet(given)
             /\ \A k \in KeySet(words'[first]) :
                    words'[first][k] = IF Has(given, k) THEN given[k]
                                       ELSE words[first][k]
             /\ is_dirty']_vars

\* edit_word changed the translation of the second entry and nothing else.
C16_Witness ==
    /\ op = "edit_word" /\ ret = True /\ Len(words) = 2
    /\ args.updates.items = Lit([translation |-> "y"])
    /\ words[2] = Entry(args.original_word, "y", "n")
    /\ words[1].translation = "x"

\* The entries of seq whose word is not w, in the order of seq.
RECURSIVE Without(_, _)
Without(seq, w) ==
    IF seq = <<>> THEN <<>>
    ELSE (IF GetIs(Head(seq), KEY_WORD, w) THEN <<>> ELSE <<Head(seq)>>)
         \o Without(Tail(seq), w)

\* C17: delete_word(w) returns true exactly when an entry had word w; after
\* it find_word(w, key='word') is None and the entries with another word are
\* all there in their old order; is_dirty is set when it returned true and is
\* as it was when it returned false.
C17_DeleteWord ==
    [][op' = "delete_word" =>
         LET w == args'.word_to_delete
         IN  /\ ret' = (IF Having(w) # {} THEN True ELSE False)
             /\ find_word([words |-> words'], w, KEY_WORD) = None
             /\ words' = Without(words, w)
             /\ is_dirty' = (ret' = True \/ is_dirty)]_vars

\* delete_word took the second of three entries out of a saved list: the
\* first and the third are left, in that order.
C17_Witness ==
    /\ op = "delete_word" /\ ret = True /\ is_dirty /\ unsaved
    /\ Len(words) = 2 /\ words[1].word # words[2].word
    /\ disk.state = "ok"
    /\ LET saved == JsonLoad(disk.data)
       IN  /\ Len(saved) = 3
           /\ saved[1] = words[1] /\ saved[3] = words[2]
           /\ GetIs(saved[2], KEY_WORD, args.word_to_delete)

\* C18: add_word, edit_word, delete_word and save_changes, whatever they
\* return, leave the history, the browse cursor and the sequential cursor as
\* they were; the history rows of a deleted or renamed word stay.
C18_CrudFrame ==
    [][op' \in Mutations \cup {"save_changes"} =>
         /\ history' = history
         /\ history_index' = history_index
         /\ current_index' = current_index]_vars

\* A word was deleted, or renamed, while the history has a row of it.
C18_Witness ==
    /\ \/ op = "delete_word" /\ ret = True
          /\ \E i \in 1..Len(history) : GetIs(history[i], KEY_WORD, args.word_to_delete)
       \/ op = "edit_word" /\ ret = True /\ args.original_word = "a"
          /\ args.updates.items = Lit([word |-> "b"])
          /\ \E i \in 1..Len(history) : GetIs(history[i], KEY_WORD, "a")
    /\ history_index > 0 /\ current_index > 0

\* All but the browse cursor is after a step what it was before it.
OnlyCursorMoves ==
    /\ words' = words /\ is_dirty' = is_dirty /\ current_index' = current_index
    /\ history' = history /\ disk' = disk

\* C19: get_previous_word returns None and changes nothing when the history
\* is empty or history_index <= 0; otherwise it takes exactly 1 from
\* history_index and returns the row at the new index. has_previous_word()
\* is true in exactly the states where get_previous_word returns a row.
C19_PreviousWord ==
    /\ [][op' = "get_previous_word" =>
            IF history = <<>> \/ history_index <= 0
            THEN ret' = None /\ StoreUnchanged
            ELSE /\ history_index' = history_index - 1
                 /\ ret' = history[history_index' + 1]
                 /\ OnlyCursorMoves]_vars
    /\ [](has_previous_word(Self) <=> get_previous_word(Self).ret # None)

\* get_previous_word stepped back from the tail of a full history to its
\* middle row.
C19_Witness ==
    /\ op = "get_previous_word" /\ Len(history) = MaxHistory
    /\ history_index = Len(history) - 2 /\ ret = history[history_index + 1]
    /\ has_previous_word(Self)

\* C20: get_next_history_word returns None and changes nothing when the
\* history is empty or the cursor is at its tail; otherwise it adds exactly 1
\* to history_index and returns the row at the new index.
\* has_next_history_word() is true in exactly the states where
\* get_next_history_word returns a row, and with a non-empty history exactly
\* one of has_next_history_word() and is_at_history_end() is true.
C20_NextHistoryWord ==
    /\ [][op' = "get_next_history_word" =>
            IF history = <<>> \/ history_index = Len(history) - 1
            THEN ret' = None /\ StoreUnchanged
            ELSE /\ history_index' = history_index + 1
                 /\ ret' = history[history_index' + 1]
                 /\ OnlyCursorMoves]_vars
    /\ [](has_next_history_word(Self) <=> get_next_history_word(Self).ret # None)
    /\ [](history # <<>> => (has_next_history_word(Self) <=> ~is_at_history_end(Self)))

\* get_next_history_word stepped forward to the tail, after a step back.
C20_Witness ==
    /\ op = "get_next_history_word" /\ ret # None
    /\ Len(history) > 1 /\ ret = history[Len(history)]
    /\ is_at_history_end(Self) /\ ~has_next_history_word(Self)

\* C22: with an empty list get_random_word and get_next_word return None,
\* raise nothing, and leave the sequential cursor, the history, the browse
\* cursor and is_dirty (the whole store) as they were.
C22_EmptyStoreRetrieval ==
    [][(op' \in Retrievals /\ words = <<>>) => (ret' = None /\ StoreUnchanged)]_vars

\* A retrieval on a list emptied by delete_word, with rows in the history,
\* the sequential cursor advanced and changes unsaved.
C22_Witness ==
    /\ op \in Retrievals /\ ret = None /\ words = <<>>
    /\ history # <<>> /\ current_index >= 0 /\ is_dirty

\* C23: on a non-empty list get_random_word returns an entry of the list as
\* it is at the call, leaves the browse cursor on the history's last row and
\* that row with the entry's word, and does not change the sequential
\* cursor, the list or is_dirty.
C23_RandomWord ==
    [][(op' = "get_random_word" /\ words # <<>>) =>
         /\ \E i \in 1..Len(words) : ret' = words[i]
         /\ history' # <<>>
         /\ history_index' = Len(history') - 1
         /\ GetSame(history'[Len(history')], ret', KEY_WORD)
         /\ current_index' = current_index
         /\ words' = words
         /\ is_dirty' = is_dirty]_vars

\* get_random_word drew from a list that a delete had shortened, and the
\* history got a new row.
C23_Witness ==
    /\ op = "get_random_word" /\ "append" \in tags
    /\ Len(words) = 1 /\ ret = words[1] /\ is_dirty
    /\ \E i \in 1..Len(history) : ~GetSame(history[i], words[1], KEY_WORD)

\* C24: with two or more entries in the list, every entry is a result
\* get_random_word can give, in every reachable state, whatever was drawn
\* before and wherever the history and the sequential cursor are; the entry
\* drawn last can be drawn again.
C24_RandomCoverage ==
    /\ [](Len(words) >= 2 =>
            \A i \in 1..Len(words) :
                ENABLED (GetRandomWord /\ NoArgs /\ ret' = words[i]))
    /\ []((op = "get_random_word" /\ ret # None /\ \E i \in 1..Len(words) : ret = words[i])
            => ENABLED (GetRandomWord /\ NoArgs /\ ret' = ret))

\* get_random_word gave the second of two entries when the history's last row
\* already was that word.
C24_Witness ==
    /\ op = "get_random_word" /\ tags = {"duplicate"}
    /\ Len(words) = 2 /\ ret = words[2] /\ Len(history) > 1

\* C25: reset_sequential_index sets the sequential cursor to -1 whatever it
\* was, so that with a non-empty list the next get_next_word returns the
\* entry at index 0; it changes nothing else.
C25_ResetSequentialIndex ==
    /\ [][op' = "reset_sequential_index" =>
            /\ current_index' = -1
            /\ words' = words /\ history' = history
            /\ history_index' = history_index /\ is_dirty' = is_dirty
            /\ disk' = disk]_vars
    /\ [][(op = "reset_sequential_index" /\ op' = "get_next_word" /\ words # <<>>)
            => ret' = words[1]]_vars

\* get_next_word right after a reset_sequential_index that found the cursor
\* on the second entry of a changed list, with the browse cursor before the
\* history's tail: it returned the first entry.
C25_Witness ==
    /\ op = "get_next_word" /\ {"reset", "moved", "truncate"} \subseteq tags
    /\ Len(words) = 2 /\ ret = words[1] /\ current_index = 0 /\ is_dirty
    /\ history_index > 0 /\ GetSame(history[history_index], words[2], KEY_WORD)

\* C29: find_word(value, key) returns the first entry of the list, in list
\* order, whose field `key` is value; find_word(value) returns the first
\* entry whose word or translation is value, so an entry matching by
\* translation is returned before a later one matching by word; both return
\* None when no entry matches, and neither changes anything.
Matches(entry, value, key) ==
    IF key = NoKey
    THEN GetIs(entry, KEY_WORD, value) \/ GetIs(entry, KEY_TRANSLATION, value)
    ELSE GetIs(entry, key, value)

C29_FindWord ==
    [][op' = "find_word" =>
         LET value == args'.value_to_find
             key == args'.key
         IN  /\ StoreUnchanged
             /\ \/ /\ ret' = None
                   /\ \A i \in 1..Len(words) : ~Matches(words[i], value, key)
                \/ \E i \in 1..Len(words) :
                   /\ ret' = words[i]
                   /\ Matches(words[i], value, key)
                   /\ \A j \in 1..(i - 1) : ~Matches(words[j], value, key)]_vars

\* find_word without a key returned the first entry, whose translation is
\* the value, and not the second, whose word is the value.
C29_Witness ==
    /\ op = "find_word" /\ args.key = NoKey /\ Len(words) = 2
    /\ words[1].translation = args.value_to_find
    /\ words[1].word # args.value_to_find
    /\ words[2].word = args.value_to_find
    /\ ret = words[1]

\* C21: get_previous_word, get_next_history_word, has_previous_word,
\* has_next_history_word, is_at_history_end, get_history and
\* get_history_info never change the list, the sequential cursor, is_dirty
\* or the history; the two moves may change the browse cursor and the
\* queries change nothing; so what the next get_next_word returns is the
\* same after them as before them.
Browsing ==
    {"get_previous_word", "get_next_history_word", "has_previous_word",
     "has_next_history_word", "is_at_history_end", "get_history", "get_history_info"}

C21_BrowsingIndependent ==
    [][op' \in Browsing =>
         /\ OnlyCursorMoves
         /\ op' \notin {"get_previous_word", "get_next_history_word"}
                => history_index' = history_index
         /\ get_next_word([words |-> words', current_index |-> current_index',
                           history |-> history', history_index |-> history_index']).ret
              = get_next_word(Self).ret]_vars

\* get_previous_word stepped back in the history while the sequential
\* cursor is in mid-list.
C21_Witness ==
    /\ op = "get_previous_word" /\ ret # None
    /\ Len(words) = 2 /\ current_index = 0 /\ Len(history) = MaxHistory
    /\ ~GetSame(ret, words[2], KEY_WORD)

\* C30: a caller that changes an entry it got from get_previous_word or
\* get_next_history_word, or the list it got from get_history or an entry of
\* that list, changes neither the history nor the list of words.
C30_DefensiveCopies ==
    [][op' = "caller" => (history' = history /\ words' = words)]_vars

\* C26: when the file cannot be read at construction (it is missing, is not
\* JSON, or cannot be read for another reason), the construction raises
\* nothing, the list is empty, is_dirty is false and the write of an empty
\* array was tried; when that write fails nothing is raised either.
C26_LoadFailure ==
    (op = "__init__" /\ args.filepath.state # "ok")
        => (ret = None /\ words = <<>> /\ ~is_dirty /\ io # "none")

\* An add_word step leaves the old list as the head of the new one, a
\* delete_word step leaves the entries of the other words as they stood, and
\* an edit_word step leaves every entry in its place, the first entry of the
\* word being the one it changed.
KeepsOrder ==
    CASE op' = "add_word" ->
           Len(words') >= Len(words) /\ Prefix(words', Len(words)) = words
      [] op' = "delete_word" ->
           words' = Without(words, args'.word_to_delete)
      [] OTHER ->
           /\ Len(words') = Len(words)
           /\ \A j \in 1..Len(words) :
                  \/ words'[j] = words[j]
                  \/ /\ ret' = True
                     /\ j = Min(Having(args'.original_word))
                     /\ words'[j] = Update(words[j], args'.updates.items)

\* C27: after a save_changes that wrote the file, a store constructed on
\* that file has the entries of the saved list, field by field, in the same
\* order; add_word, edit_word and delete_word keep the order of the entries
\* they leave in the list.
C27_RoundTrip ==
    /\ []((op = "save_changes" /\ io = "written")
            => __init__(disk, "ok").self.words = words)
    /\ [][(op = "save_changes" /\ io = "written" /\ op' = "__init__")
            => (ret' = None /\ words' = words)]_vars
    /\ [][op' \in Mutations => KeepsOrder]_vars

\* A store constructed on the file that a save_changes had just written,
\* with three entries, the first of them lacking a field and the second an
\* edited one that stayed between the two others.
C27_Witness ==
    /\ op = "__init__" /\ args.filepath = DiskOk(words) /\ io = "none"
    /\ Len(words) = 3 /\ KeySet(words[1]) # KeySet(words[2])
    /\ words[2] = Entry("c", "y", "") /\ words[3] = Entry("b", "x", "")

\* C28: after loading a file whose entries lack some of the fields word,
\* translation and partOfSpeech, every entry of the list has all three
\* fields, those the file lacks being ''.
C28_FieldsDefaulted ==
    (op = "__init__" /\ ret = None /\ args.filepath.state = "ok")
        => LET filed == JsonLoad(args.filepath.data)
           IN  /\ Len(words) = Len(filed)
               /\ \A i \in 1..Len(words) :
                      /\ KeySet(words[i]) = {KEY_WORD, KEY_TRANSLATION, KEY_POS}
                      /\ \A k \in KeySet(words[i]) :
                             words[i][k] = IF Has(filed[i], k) THEN filed[i][k] ELSE ""

\* The history as the duplicate check finds it: cut after the browse cursor.
Cut == Prefix(history, history_index + 1)

\* C32, as stated: when a retrieval returns an entry that has the word of the
\* history's tail row but another translation or partOfSpeech, no row is
\* appended and the tail row keeps the field values it had, wherever the
\* browse cursor is.
C32_Original ==
    [][(/\ Retrieved'
        /\ history # <<>>
        /\ GetSame(history[Len(history)], ret', KEY_WORD)
        /\ history[Len(history)] # ret')
       => /\ Len(history') <= Len(history)
          /\ history' = Prefix(history, Len(history'))
          /\ history'[Len(history')] = history[Len(history)]]_vars

\* C32: when a retrieval returns an entry that has the word of the row at
\* the browse cursor (the history's tail once the rows after the cursor are
\* cut, which is the row the duplicate check looks at) but another
\* translation or partOfSpeech, as after an edit_word of the entry between
\* two retrievals of it, no row is appended and that row, now the tail,
\* keeps the field values it had.
C32_WordOnlyDuplicateCheck ==
    [][(/\ Retrieved'
        /\ Cut # <<>>
        /\ GetSame(Cut[Len(Cut)], ret', KEY_WORD)
        /\ Cut[Len(Cut)] # ret')
       => /\ history' = Cut
          /\ history'[Len(history')] = history[history_index + 1]
          /\ history'[Len(history')] # ret']_vars

\* The entry just retrieved has the word of the row the cursor was at, before
\* the tail, and a translation that row has not: the rows after it were cut
\* and none was appended.
C32_Witness ==
    /\ Retrieved /\ tags = {"truncate", "duplicate"}
    /\ GetSame(history[Len(history)], ret, KEY_WORD)
    /\ ret.translation = "y" /\ history[Len(history)].translation = "x"
    /\ Len(history) > 1

\* C33: a retrieval made with the browse cursor at i, before the tail, that
\* returns an entry with the word of row i cuts the rows after i and appends
\* none: the history is its old rows 0..i, shorter than it was, and the
\* cursor is at i.
C33_TruncationBeforeDuplicateCheck ==
    [][(/\ Retrieved'
        /\ history # <<>>
        /\ history_index < Len(history) - 1
        /\ GetSame(history[history_index + 1], ret', KEY_WORD))
       => /\ history' = Prefix(history, history_index + 1)
          /\ Len(history') < Len(history)
          /\ history_index' = history_index]_vars

\* Such a retrieval, by get_next_word, that left one row.
C33_Witness ==
    /\ Retrieved /\ tags = {"truncate", "duplicate"}
    /\ Len(history) = 1 /\ history_index = 0
    /\ op = "get_next_word" /\ current_index = 1

\* C37: no two rows of the history that are next to each other have the same
\* word.
C37_NoAdjacentDuplicates ==
    \A i \in 1..(Len(history) - 1) : ~GetSame(history[i], history[i + 1], KEY_WORD)

\* A full history after a retrieval that cut rows and evicted none, the word
\* retrieved being that of the row cut first.
C37_Witness ==
    /\ Retrieved /\ tags = {"truncate", "append"}
    /\ Len(history) = MaxHistory
    /\ \E i \in 1..Len(history) - 1 : GetSame(history[i], ret, KEY_WORD)

\* C39: where has_previous_word() is true, get_previous_word and then
\* get_next_history_word leave the browse cursor where it was and the history
\* as it was, and the second call returns the row at that cursor; likewise
\* get_next_history_word and then get_previous_word where
\* has_next_history_word() is true.
C39_BrowseRoundTrip ==
    /\ has_previous_word(Self) =>
         LET back == get_previous_word(Self)
             forth == get_next_history_word(back.self)
         IN  /\ back.ret # None
             /\ forth.self.history_index = history_index
             /\ forth.self.history = history
             /\ forth.ret = history[history_index + 1]
    /\ has_next_history_word(Self) =>
         LET forth == get_next_history_word(Self)
             back == get_previous_word(forth.self)
         IN  /\ forth.ret # None
             /\ back.self.history_index = history_index
             /\ back.self.history = history
             /\ back.ret = history[history_index + 1]

\* get_next_history_word has just undone a step back, in the middle of a
\* full history.
C39_Witness ==
    /\ op = "get_next_history_word" /\ ret # None
    /\ Len(history) = MaxHistory /\ history_index = 1
    /\ has_previous_word(Self) /\ has_next_history_word(Self)
    /\ ret = history[history_index + 1]

\* C38, as stated: in every state where is_dirty is false, after
\* construction whatever the load did and after failed writes too, the file
\* holds the list that is in memory.
C38_Original ==
    (~NotBuilt /\ ~is_dirty) => (disk.state = "ok" /\ JsonLoad(disk.data) = words)

\* C38: in every state where is_dirty is false, a store constructed on the
\* file as it is gets the list that is in memory, whatever its own write
\* does: the file holds the list, or the list is empty and the file is
\* missing or not JSON.
C38_CleanMeansLoadable ==
    (~NotBuilt /\ ~is_dirty) =>
        \A outcome \in WriteOutcomes :
            LET again == __init__(disk, outcome)
            IN  again.ret = None /\ again.self.words = words

\* A clean store on a file that is not JSON: the construction could not load
\* it and its write of the empty array failed half-way.
C38_Witness ==
    /\ op = "__init__" /\ io = "dump_failed" /\ ~is_dirty
    /\ words = <<>> /\ disk = DiskCorrupt
    /\ args.filepath.state = "corrupt"

====
